---------------------------- MODULE Spec2Model ----------------------------
(***************************************************************************)
(* AtisSqlTableContext: the schema-driven SQL grammar dictionary of the    *)
(* ATIS semantic parser (allennlp/semparse/contexts/                       *)
(* atis_sql_table_context.py).                                             *)
(*                                                                         *)
(* Python strings are TLA+ strings; a Python list is a sequence; a Python  *)
(* dict is the sequence of its items in insertion order.  Objects that the *)
(* code shares by reference (the module-level GRAMMAR_DICTIONARY and each  *)
(* instance's grammar_dictionary) live in a heap of dict objects.          *)
(*                                                                         *)
(* grammar_str, grammar and valid_actions are computed from the dictionary *)
(* by code outside this source (format_grammar_string, the PEG engine's    *)
(* Grammar, initialize_valid_actions); of them the model keeps whether the *)
(* grammar compiles.  cached_path is taken to resolve database_file.       *)
(***************************************************************************)
EXTENDS Integers, Sequences, FiniteSets, TLC

(***************************************************************************)
(* Python str: code points, comparison, sorting, formatting.               *)
(***************************************************************************)

\* Printable ASCII in code-point order: 32..95, then 97..126 (96 is unused).
AsciiLow ==
    " !\"#$%&'()*+,-./0123456789:;<=>?@ABCDEFGHIJKLMNOPQRSTUVWXYZ[\\]^_"

AsciiHigh ==
    "abcdefghijklmnopqrstuvwxyz{|}~"

CharAt(s, i) == SubSeq(s, i, i)

\* The code point of a one-character string (Python's ord).
OrdTable ==
    [c \in {CharAt(AsciiLow, i) : i \in 1..Len(AsciiLow)}
           \cup {CharAt(AsciiHigh, i) : i \in 1..Len(AsciiHigh)} |->
        IF \E i \in 1..Len(AsciiLow) : CharAt(AsciiLow, i) = c
        THEN 31 + (CHOOSE i \in 1..Len(AsciiLow) : CharAt(AsciiLow, i) = c)
        ELSE 96 + (CHOOSE i \in 1..Len(AsciiHigh) : CharAt(AsciiHigh, i) = c)]

ord(c) == OrdTable[c]

\* a < b on Python strings: lexicographic by code point, a proper prefix
\* is smaller.
RECURSIVE StrLessFrom(_, _, _)
StrLessFrom(a, b, i) ==
    IF i > Len(a) THEN i <= Len(b)
    ELSE IF i > Len(b) THEN FALSE
    ELSE IF CharAt(a, i) = CharAt(b, i) THEN StrLessFrom(a, b, i + 1)
    ELSE ord(CharAt(a, i)) < ord(CharAt(b, i))

StrLess(a, b) == StrLessFrom(a, b, 1)

\* Insert x into the descending list s behind every element that is not
\* smaller than x (the sort is stable).
RECURSIVE InsertDescending(_, _)
InsertDescending(x, s) ==
    IF s = <<>> THEN <<x>>
    ELSE IF StrLess(Head(s), x) THEN <<x>> \o s
    ELSE <<Head(s)>> \o InsertDescending(x, Tail(s))

\* sorted(xs, reverse=True)
RECURSIVE SortedFrom(_, _, _)
SortedFrom(xs, i, acc) ==
    IF i > Len(xs) THEN acc
    ELSE SortedFrom(xs, i + 1, InsertDescending(xs[i], acc))

sorted_reverse(xs) == SortedFrom(xs, 1, <<>>)

\* sorted(xs): the ascending sort, which is what sorted gives when
\* reverse=True is left out.
\* Insert x into the ascending list s behind every element not greater.
RECURSIVE InsertAscending(_, _)
InsertAscending(x, s) ==
    IF s = <<>> THEN <<x>>
    ELSE IF StrLess(x, Head(s)) THEN <<x>> \o s
    ELSE <<Head(s)>> \o InsertAscending(x, Tail(s))

RECURSIVE SortedAscendingFrom(_, _, _)
SortedAscendingFrom(xs, i, acc) ==
    IF i > Len(xs) THEN acc
    ELSE SortedAscendingFrom(xs, i + 1, InsertAscending(xs[i], acc))

sorted_ascending(xs) == SortedAscendingFrom(xs, 1, <<>>)

\* column.endswith(suffix)
endswith(s, suffix) ==
    /\ Len(s) >= Len(suffix)
    /\ SubSeq(s, Len(s) - Len(suffix) + 1, Len(s)) = suffix

\* str(n) for a non-negative int: its decimal digits.
RECURSIVE IntToStr(_)
IntToStr(n) ==
    IF n < 10 THEN CharAt("0123456789", n + 1)
    ELSE IntToStr(n \div 10) \o CharAt("0123456789", (n % 10) + 1)


(***************************************************************************)
(* Inputs of a construction call.                                          *)
(***************************************************************************)

\* Most rows the data source holds (over all its tables).
MaxRows == 3

\* The injective sequences over S: the orders in which a dict or a list
\* can hold distinct elements of S.
Perms(S) ==
    {p \in [1..Cardinality(S) -> S] :
        \A i, j \in 1..Cardinality(S) : p[i] = p[j] => i = j}

InjectiveSeqs(S) == UNION {Perms(T) : T \in SUBSET S}

Range(s) == {s[i] : i \in 1..Len(s)}

TableNames == {"city", "flight"}

ColumnNames(table) ==
    IF table = "city" THEN {"city_name", "state"} ELSE {"flight_number"}

\* Optional[Dict[str, List[str]]]: None, or the dict's items in insertion
\* order, each a <<table, columns>> pair with the keys distinct.
None == [is_none |-> TRUE, items |-> <<>>]

Dict(items) == [is_none |-> FALSE, items |-> items]

DictsOver(tables) ==
    {Dict([i \in 1..Len(tables) |-> <<tables[i], columns[tables[i]]>>]) :
        columns \in {f \in [Range(tables) ->
                            UNION {InjectiveSeqs(ColumnNames(t)) : t \in Range(tables)}] :
                        \A t \in Range(tables) : f[t] \in InjectiveSeqs(ColumnNames(t))}}

SchemaDescriptions == UNION {DictsOver(tables) : tables \in InjectiveSeqs(TableNames)}

OptionalSchemas == {None} \cup SchemaDescriptions

\* database_file: "" stands for None (both are falsy).
DatabaseFiles == {"", "atis.db"}

\* bool(d) for an Optional[dict]: None and {} are falsy.
Truthy(d) == ~d.is_none /\ Len(d.items) > 0

\* [(table, column) for table, columns in d.items() for column in columns]
RECURSIVE Pairs(_)
Pairs(items) ==
    IF Len(items) = 0 THEN <<>>
    ELSE [j \in 1..Len(items[1][2]) |-> <<items[1][1], items[1][2][j]>>]
         \o Pairs(Tail(items))

(***************************************************************************)
(* The data source (sqlite3): typed values, SELECT DISTINCT, fetchall.     *)
(***************************************************************************)

Text(s) == [type |-> "TEXT", int |-> 0, text |-> s]

Integer(n) == [type |-> "INTEGER", int |-> n, text |-> ""]

\* The columns the database has; a query on any other one fails.
DbColumns == {<<"city", "state">>, <<"flight", "flight_number">>}

\* sqlite columns are dynamically typed: one column can store the integer
\* 10 and the text '10', which are distinct values.
ColumnValues(c) ==
    IF c = <<"city", "state">> THEN {Text("CA"), Text("TX")}
    ELSE {Integer(10), Text("10")}

DbCells == UNION {{<<c, v>> : v \in ColumnValues(c)} : c \in DbColumns}

RECURSIVE TotalRows(_, _)
TotalRows(d, cells) ==
    IF cells = {} THEN 0
    ELSE LET cell == CHOOSE x \in cells : TRUE
         IN d[cell] + TotalRows(d, cells \ {cell})

\* A snapshot: how many rows of each column store each value.
DataSources ==
    {d \in [DbCells -> 0..MaxRows] : TotalRows(d, DbCells) <= MaxRows}

\* SELECT DISTINCT table . column FROM table
SelectDistinct(d, c) == {v \in ColumnValues(c) : d[<<c, v>>] > 0}

\* cursor.fetchall(): the distinct values, in an order the data source
\* chooses.
FetchOrders(d) ==
    {f \in [DbColumns -> UNION {Perms(SelectDistinct(d, c)) : c \in DbColumns}] :
        \A c \in DbColumns : f[c] \in Perms(SelectDistinct(d, c))}

\* str(row[0])
python_str(v) == IF v.type = "INTEGER" THEN IntToStr(v.int) ELSE v.text

(***************************************************************************)
(* Python dict: the items <<key, value>> in insertion order.               *)
(***************************************************************************)

\* d.keys()
keys(d) == {d[k][1] : k \in 1..Len(d)}

\* d[key]
getitem(d, key) == d[CHOOSE k \in 1..Len(d) : d[k][1] = key][2]

\* d[key] = value: a key the dict has keeps its place, a new key goes last.
setitem(d, key, value) ==
    IF key \in keys(d)
    THEN [k \in 1..Len(d) |-> IF d[k][1] = key THEN <<key, value>> ELSE d[k]]
    ELSE Append(d, <<key, value>>)

(***************************************************************************)
(* The base grammar.                                                       *)
(***************************************************************************)

GRAMMAR_DICTIONARY ==
    <<
       <<"statement", <<
            "query ws \";\" ws">> >>,
       <<"query", <<
            "(ws \"(\" ws \"SELECT\" ws distinct ws select_results ws \"FROM\" ws table_refs ws where_clause ws \")\" ws)",
            "(ws \"SELECT\" ws distinct ws select_results ws \"FROM\" ws table_refs ws where_clause ws)">> >>,
       <<"select_results", <<
            "col_refs",
            "agg">> >>,
       <<"agg", <<
            "agg_func ws \"(\" ws col_ref ws \")\"">> >>,
       <<"agg_func", <<
            "\"MIN\"",
            "\"min\"",
            "\"MAX\"",
            "\"max\"",
            "\"COUNT\"",
            "\"count\"">> >>,
       <<"col_refs", <<
            "(col_ref ws \",\" ws col_refs)",
            "(col_ref)">> >>,
       <<"table_refs", <<
            "(table_name ws \",\" ws table_refs)",
            "(table_name)">> >>,
       <<"where_clause", <<
            "(\"WHERE\" ws \"(\" ws conditions ws \")\" ws)",
            "(\"WHERE\" ws conditions ws)">> >>,
       <<"conditions", <<
            "(condition ws conj ws conditions)",
            "(condition ws conj ws \"(\" ws conditions ws \")\")",
            "(\"(\" ws conditions ws \")\" ws conj ws conditions)",
            "(\"(\" ws conditions ws \")\")",
            "(\"not\" ws conditions ws )",
            "(\"NOT\" ws conditions ws )",
            "condition">> >>,
       <<"condition", <<
            "in_clause",
            "ternaryexpr",
            "biexpr">> >>,
       <<"in_clause", <<
            "(ws col_ref ws \"IN\" ws query ws)">> >>,
       <<"biexpr", <<
            "( col_ref ws binaryop ws value)",
            "(value ws binaryop ws value)">> >>,
       <<"binaryop", <<
            "\"+\"",
            "\"-\"",
            "\"*\"",
            "\"/\"",
            "\"=\"",
            "\">=\"",
            "\"<=\"",
            "\">\"",
            "\"<\"",
            "\"is\"",
            "\"IS\"">> >>,
       <<"ternaryexpr", <<
            "(col_ref ws \"not\" ws \"BETWEEN\" ws value ws \"AND\" ws value ws)",
            "(col_ref ws \"NOT\" ws \"BETWEEN\" ws value ws \"AND\" ws value ws)",
            "(col_ref ws \"BETWEEN\" ws value ws \"AND\" ws value ws)">> >>,
       <<"value", <<
            "(\"not\" ws pos_value)",
            "(\"NOT\" ws pos_value)",
            "(pos_value)">> >>,
       <<"pos_value", <<
            "(\"ALL\" ws query)",
            "(\"ANY\" ws query)",
            "number",
            "boolean",
            "col_ref",
            "agg_results",
            "\"NULL\"">> >>,
       <<"agg_results", <<
            "(ws \"(\"  ws \"SELECT\" ws distinct ws agg ws \"FROM\" ws table_name ws where_clause ws \")\" ws)",
            "(ws \"SELECT\" ws distinct ws agg ws \"FROM\" ws table_name ws where_clause ws)">> >>,
       <<"boolean", <<
            "\"true\"",
            "\"false\"">> >>,
       <<"ws", <<
            "~\"\\s*\"i">> >>,
       <<"conj", <<
            "\"AND\"",
            "\"OR\"">> >>,
       <<"distinct", <<
            "(\"DISTINCT\")",
            "(\"\")">> >>,
       <<"number", <<
            "\"\"">> >>
    >>

\* The nonterminals the base grammar's expansions refer to.
TemplateReferences ==
    {"agg", "agg_func", "agg_results", "biexpr", "binaryop", "boolean",
     "col_ref", "col_refs", "condition", "conditions", "conj", "distinct",
     "in_clause", "number", "pos_value", "query", "select_results",
     "table_name", "table_refs", "ternaryexpr", "value", "where_clause", "ws"}

(***************************************************************************)
(* initialize_grammar_str                                                  *)
(***************************************************************************)

\* The table names quoted but left in the order of the dict's keys.
table_name_alternatives_unsorted(all_tables) ==
    [i \in 1..Len(all_tables.items) |-> "\"" \o all_tables.items[i][1] \o "\""]

\* sorted([f'"{table}"' for table in list(self.all_tables.keys())], reverse=True)
table_name_alternatives(all_tables) ==
    sorted_reverse([i \in 1..Len(all_tables.items) |->
                        "\"" \o all_tables.items[i][1] \o "\""])

\* col_ref without the wildcard.
col_ref_alternatives_no_wildcard(all_tables) ==
    LET pairs == Pairs(all_tables.items)
    IN sorted_reverse(
           [i \in 1..Len(pairs) |->
               "(\"" \o pairs[i][1] \o "\" ws \".\" ws \"" \o pairs[i][2] \o "\")"])

\* col_ref sorted without reverse=True.
col_ref_alternatives_ascending(all_tables) ==
    LET pairs == Pairs(all_tables.items)
    IN sorted_ascending(
           <<"\"*\"">> \o
           [i \in 1..Len(pairs) |->
               "(\"" \o pairs[i][1] \o "\" ws \".\" ws \"" \o pairs[i][2] \o "\")"])

\* ['"*"'] extended by f'("{table}" ws "." ws "{column}")' per table and
\* column, then sorted(..., reverse=True)
col_ref_alternatives(all_tables) ==
    LET pairs == Pairs(all_tables.items)
    IN sorted_reverse(
           <<"\"*\"">> \o
           [i \in 1..Len(pairs) |->
               "(\"" \o pairs[i][1] \o "\" ws \".\" ws \"" \o pairs[i][2] \o "\")"])

\* The schema block guarded by `all_tables is not None`: an empty schema
\* sets both entries too.
schema_augmented_not_none(gd, all_tables) ==
    IF ~all_tables.is_none
    THEN setitem(setitem(gd, "table_name", table_name_alternatives(all_tables)),
                 "col_ref", col_ref_alternatives(all_tables))
    ELSE gd

\* if self.all_tables: set table_name and col_ref
schema_augmented(gd, all_tables) ==
    IF Truthy(all_tables)
    THEN setitem(setitem(gd, "table_name", table_name_alternatives(all_tables)),
                 "col_ref", col_ref_alternatives(all_tables))
    ELSE gd

\* The column is a number column only when it is named "number".
is_number_column_exact(column) == column = "number"

\* column.endswith('number')
is_number_column(column) == endswith(column, "number")

\* f'{table}_{column}_string'
string_nonterminal(table, column) == table \o "_" \o column \o "_string"

\* The literal alternatives left in the order in which the rows came.
string_alternatives_unsorted(column, rows) ==
    IF is_number_column(column)
    THEN [i \in 1..Len(rows) |-> "\"" \o python_str(rows[i]) \o "\""]
    ELSE [i \in 1..Len(rows) |-> "\"'" \o python_str(rows[i]) \o "'\""]

\* The literal alternatives of one column from the rows fetched:
\* f'"{str(row[0])}"' for a number column, f'"\'{str(row[0])}\'"' otherwise,
\* sorted(..., reverse=True).
string_alternatives(column, rows) ==
    IF is_number_column(column)
    THEN sorted_reverse([i \in 1..Len(rows) |->
                            "\"" \o python_str(rows[i]) \o "\""])
    ELSE sorted_reverse([i \in 1..Len(rows) |->
                            "\"'" \o python_str(rows[i]) \o "'\""])

\* The loop over the constrained columns: each one is queried through
\* self.cursor and gets its literal nonterminal.  Without a database_file
\* there is no self.cursor (AttributeError); a query on a column the
\* database lacks raises (sqlite3.OperationalError).  Either error leaves
\* the dictionary as the loop had made it so far.
RECURSIVE extract_strings(_, _, _, _, _)
extract_strings(gd, pairs, has_cursor, d, fetchall) ==
    IF Len(pairs) = 0 THEN [gd |-> gd, error |-> "none"]
    ELSE LET table == pairs[1][1]
             column == pairs[1][2]
         IN IF ~has_cursor THEN [gd |-> gd, error |-> "AttributeError"]
            ELSE IF <<table, column>> \notin DbColumns
            THEN [gd |-> gd, error |-> "OperationalError"]
            ELSE extract_strings(
                     setitem(gd, string_nonterminal(table, column),
                             string_alternatives(column, fetchall[<<table, column>>])),
                     Tail(pairs), has_cursor, d, fetchall)

\* f'("{table}" ws "." ws "{column}" ws binaryop ws {table}_{column}_string)'
\* for every constrained column, in the order of the loop.
biexprs_of(tables_with_strings) ==
    LET pairs == IF Truthy(tables_with_strings)
                 THEN Pairs(tables_with_strings.items) ELSE <<>>
    IN [i \in 1..Len(pairs) |->
           "(\"" \o pairs[i][1] \o "\" ws \".\" ws \"" \o pairs[i][2]
           \o "\" ws binaryop ws " \o string_nonterminal(pairs[i][1], pairs[i][2])
           \o ")"]

\* The constrained productions left in the order of the loop.
biexpr_alternatives_in_loop_order(biexprs) ==
    biexprs
    \o <<"( col_ref ws binaryop ws value)", "(value ws binaryop ws value)">>

\* sorted(biexprs, reverse=True) + the two generic alternatives
biexpr_alternatives(biexprs) ==
    sorted_reverse(biexprs)
    \o <<"( col_ref ws binaryop ws value)", "(value ws binaryop ws value)">>

\* The whole method, on the dictionary gd: the dictionary it leaves and the
\* error it raised, if any.
initialize_grammar_str(gd, all_tables, tables_with_strings, has_cursor, d, fetchall) ==
    LET r == extract_strings(
                 schema_augmented(gd, all_tables),
                 IF Truthy(tables_with_strings)
                 THEN Pairs(tables_with_strings.items) ELSE <<>>,
                 has_cursor, d, fetchall)
    IN IF r.error # "none" THEN r
       ELSE [gd |-> setitem(r.gd, "biexpr",
                            biexpr_alternatives(biexprs_of(tables_with_strings))),
             error |-> "none"]

(***************************************************************************)
(* Grammar(self.grammar_str): the PEG engine compiles the grammar text.    *)
(***************************************************************************)

\* The nonterminals the dictionary's expansions refer to: those of the base
\* grammar and the literal nonterminal of every constrained biexpr.
References(gd) ==
    TemplateReferences \cup {k \in keys(gd) : endswith(k, "_string")}

\* The error the engine raises for the dictionary, or "none": a rule with
\* no alternative is no rule ("ParseError"), a reference to a nonterminal
\* that has no rule is undefined ("UndefinedLabel").
grammar_error(gd) ==
    IF \E k \in keys(gd) : Len(getitem(gd, k)) = 0 THEN "ParseError"
    ELSE IF ~(References(gd) \subseteq keys(gd)) THEN "UndefinedLabel"
    ELSE "none"

(***************************************************************************)
(* State.                                                                  *)
(***************************************************************************)

VARIABLES
    heap,   \* dict objects by reference: heap[TemplateRef] is the module's
            \* GRAMMAR_DICTIONARY, the others belong to instances
    ctx,    \* the AtisSqlTableContext objects, by instance
    db      \* the snapshot of the data source behind database_file

vars == <<heap, ctx, db>>

\* Two instances: the construction under study and an independent one.
Contexts == {1, 2}

\* The reference of the module-level GRAMMAR_DICTIONARY.
TemplateRef == 0

\* No copy: the instance holds the very object it was given.
deepcopy_shared(h, obj, fresh) == [ref |-> obj, heap |-> h]

\* deepcopy(obj): a dict object of its own, at the reference `fresh`,
\* holding a copy of h[obj].
deepcopy(h, obj, fresh) == [ref |-> fresh, heap |-> (fresh :> h[obj]) @@ h]

NotConstructed ==
    [stage |-> "none", error |-> "none", grammar_dictionary |-> TemplateRef,
     all_tables |-> None, tables_with_strings |-> None, database_file |-> "",
     connection |-> "none"]

\* __init__ on the heap h: the heap and the instance it leaves.  The
\* connection is opened when database_file is given and closed by the last
\* statement only; an error raised before it leaves the connection open.
init(h, self, all_tables, tables_with_strings, database_file, d, fetchall) ==
    LET copy == deepcopy(h, TemplateRef, self)
        ref == copy.ref
        connected == database_file # ""
        r == initialize_grammar_str(copy.heap[ref], all_tables,
                                    tables_with_strings, connected, d, fetchall)
        error == IF r.error # "none" THEN r.error ELSE grammar_error(r.gd)
    IN [heap |-> [copy.heap EXCEPT ![ref] = r.gd],
        ctx |-> [stage |-> IF error = "none" THEN "ready" ELSE "failed",
                 error |-> error,
                 grammar_dictionary |-> ref,
                 all_tables |-> all_tables,
                 tables_with_strings |-> tables_with_strings,
                 database_file |-> database_file,
                 connection |-> IF ~connected THEN "none"
                                ELSE IF error = "none" THEN "closed"
                                ELSE "open"]]

\* get_grammar_dictionary(): the instance's own dict object, by reference.
get_grammar_dictionary(self) == ctx[self].grammar_dictionary

Init ==
    /\ heap = (TemplateRef :> GRAMMAR_DICTIONARY)
    /\ ctx = [c \in Contexts |-> NotConstructed]
    /\ db \in DataSources

\* AtisSqlTableContext(all_tables, tables_with_strings, database_file)
Construct(self, all_tables, tables_with_strings, database_file) ==
    /\ ctx[self].stage = "none"
    /\ \E fetchall \in FetchOrders(db) :
          LET r == init(heap, self, all_tables, tables_with_strings,
                        database_file, db, fetchall)
          IN /\ heap' = r.heap
             /\ ctx' = [ctx EXCEPT ![self] = r.ctx]
    /\ UNCHANGED db

\* The numbers of an utterance, written by the caller into the dictionary
\* that get_grammar_dictionary() returned.
NumberUpdates == {<<"\"1\"", "\"0\"">>}

UpdateNumber(self, numbers) ==
    /\ ctx[self].stage = "ready"
    /\ heap' = [heap EXCEPT ![get_grammar_dictionary(self)] =
                   setitem(@, "number", numbers)]
    /\ UNCHANGED <<ctx, db>>

\* One construction call, with any inputs, and the caller's updates.
Next ==
    \/ \E all_tables \in OptionalSchemas, tables_with_strings \in OptionalSchemas,
          database_file \in DatabaseFiles :
          Construct(1, all_tables, tables_with_strings, database_file)
    \/ \E numbers \in NumberUpdates : UpdateNumber(1, numbers)

Spec == Init /\ [][Next]_vars


\* Two independent construction calls, each with the schema, the constraints
\* and the database file of its own, and the callers' updates.
PairSchemas ==
    {None,
     Dict(<< <<"city", <<"city_name", "state">> >> >>),
     Dict(<< <<"flight", <<"flight_number">> >>, <<"city", <<"state">> >> >>)}

PairConstraints ==
    {None,
     Dict(<< <<"city", <<"state">> >> >>),
     Dict(<< <<"city", <<"state">> >>, <<"flight", <<"flight_number">> >> >>)}

NextPair ==
    \/ \E self \in Contexts, all_tables \in PairSchemas,
          tables_with_strings \in PairConstraints, database_file \in DatabaseFiles :
          Construct(self, all_tables, tables_with_strings, database_file)
    \/ \E self \in Contexts, numbers \in NumberUpdates : UpdateNumber(self, numbers)

SpecPair == Init /\ [][NextPair]_vars

(***************************************************************************)
(* Properties.                                                             *)
(***************************************************************************)

\* The construction call of instance i has ended, normally or by an error.
Ended(i) == ctx[i].stage # "none"

Ready(i) == ctx[i].stage = "ready"

\* initialize_grammar_str returned: the call ended normally or failed only
\* when the grammar was compiled.
GrammarStrBuilt(i) ==
    Ended(i) /\ ctx[i].error \in {"none", "ParseError", "UndefinedLabel"}

\* The grammar dictionary of instance i.
GrammarOf(i) == heap[ctx[i].grammar_dictionary]

Descending(s) == \A k \in 1..(Len(s) - 1) : ~StrLess(s[k], s[k + 1])

StrictlyDescending(s) == \A k \in 1..(Len(s) - 1) : StrLess(s[k + 1], s[k])

NoDuplicates(s) == \A k, l \in 1..Len(s) : s[k] = s[l] => k = l

TablesOf(d) == {d.items[k][1] : k \in 1..Len(d.items)}

\* The (table, column) pairs of a dict.
PairsOf(d) ==
    UNION {{<<d.items[k][1], d.items[k][2][l]>> : l \in 1..Len(d.items[k][2])} :
              k \in 1..Len(d.items)}

RECURSIVE ColumnCount(_, _)
ColumnCount(d, k) ==
    IF k = 0 THEN 0 ELSE Len(d.items[k][2]) + ColumnCount(d, k - 1)

Wildcard == "\"*\""

ColRef(pair) == "(\"" \o pair[1] \o "\" ws \".\" ws \"" \o pair[2] \o "\")"

TableNameListed(i) ==
    /\ "table_name" \in keys(GrammarOf(i))
    /\ Len(getitem(GrammarOf(i), "table_name")) = Len(ctx[i].all_tables.items)
    /\ Range(getitem(GrammarOf(i), "table_name"))
           = {"\"" \o t \o "\"" : t \in TablesOf(ctx[i].all_tables)}
    /\ StrictlyDescending(getitem(GrammarOf(i), "table_name"))

\* C1 as stated: for a supplied schema of N >= 0 tables, table_name has
\* exactly N alternatives, each one quoted table name, strictly descending.
C1_AnySchema ==
    \A i \in Contexts :
        (Ended(i) /\ ~ctx[i].all_tables.is_none) => TableNameListed(i)

\* C1 as amended: for a schema of N >= 1 tables, table_name has exactly N
\* alternatives, each one quoted table name, in strictly descending order;
\* for an empty schema the dictionary has no table_name entry.
C1_TableName ==
    \A i \in Contexts :
        Ended(i) =>
            /\ Truthy(ctx[i].all_tables) => TableNameListed(i)
            /\ ~Truthy(ctx[i].all_tables) => "table_name" \notin keys(GrammarOf(i))

C1_Witness ==
    \E i \in Contexts :
        /\ Ready(i)
        /\ Len(ctx[i].all_tables.items) = 2
        /\ Len(getitem(GrammarOf(i), "table_name")) = 2

ColRefListed(i) ==
    /\ "col_ref" \in keys(GrammarOf(i))
    /\ Len(getitem(GrammarOf(i), "col_ref"))
           = 1 + ColumnCount(ctx[i].all_tables, Len(ctx[i].all_tables.items))
    /\ Range(getitem(GrammarOf(i), "col_ref"))
           = {Wildcard} \cup {ColRef(p) : p \in PairsOf(ctx[i].all_tables)}
    /\ Descending(getitem(GrammarOf(i), "col_ref"))

\* C2 as stated: for any supplied schema, col_ref has 1 + (number of
\* columns) alternatives, the wildcard and one per (table, column) pair, the
\* whole list in descending order.
C2_AnySchema ==
    \A i \in Contexts :
        (Ended(i) /\ ~ctx[i].all_tables.is_none) => ColRefListed(i)

\* C2 as amended: the same for any non-empty schema; an empty schema leaves
\* the dictionary without a col_ref entry (not even the wildcard).
C2_ColRef ==
    \A i \in Contexts :
        Ended(i) =>
            /\ Truthy(ctx[i].all_tables) => ColRefListed(i)
            /\ ~Truthy(ctx[i].all_tables) => "col_ref" \notin keys(GrammarOf(i))

C2_Witness ==
    \E i \in Contexts :
        /\ Ready(i)
        /\ Len(ctx[i].all_tables.items) = 2
        /\ Len(getitem(GrammarOf(i), "col_ref")) = 4

CitySchema == Dict(<< <<"city", <<"city_name", "state">> >> >>)

\* C3 as stated: with a schema and no string constraints the wildcard is
\* the first element of col_ref and the table.column alternatives follow it
\* in descending order; for {"city": ["city_name", "state"]} col_ref is
\* ['"*"', state, city_name] and table_name is ['"city"'].
C3_WildcardFirst ==
    \A i \in Contexts :
        (Ended(i) /\ Truthy(ctx[i].all_tables) /\ ~Truthy(ctx[i].tables_with_strings)) =>
            /\ "col_ref" \in keys(GrammarOf(i))
            /\ Head(getitem(GrammarOf(i), "col_ref")) = Wildcard
            /\ Descending(Tail(getitem(GrammarOf(i), "col_ref")))
            /\ ctx[i].all_tables = CitySchema =>
                   /\ getitem(GrammarOf(i), "col_ref")
                          = <<Wildcard, ColRef(<<"city", "state">>),
                              ColRef(<<"city", "city_name">>)>>
                   /\ getitem(GrammarOf(i), "table_name") = <<"\"city\"">>

\* C3 as amended: the wildcard is the last element of col_ref and the
\* table.column alternatives precede it in descending order; for
\* {"city": ["city_name", "state"]} col_ref is [state, city_name, '"*"']
\* and table_name is ['"city"'].
C3_WildcardLast ==
    \A i \in Contexts :
        (Ended(i) /\ Truthy(ctx[i].all_tables) /\ ~Truthy(ctx[i].tables_with_strings)) =>
            /\ "col_ref" \in keys(GrammarOf(i))
            /\ LET col_ref == getitem(GrammarOf(i), "col_ref")
               IN /\ col_ref[Len(col_ref)] = Wildcard
                  /\ \A k \in 1..(Len(col_ref) - 1) : col_ref[k] # Wildcard
                  /\ Descending(SubSeq(col_ref, 1, Len(col_ref) - 1))
            /\ ctx[i].all_tables = CitySchema =>
                   /\ getitem(GrammarOf(i), "col_ref")
                          = <<ColRef(<<"city", "state">>),
                              ColRef(<<"city", "city_name">>), Wildcard>>
                   /\ getitem(GrammarOf(i), "table_name") = <<"\"city\"">>

C3_Witness ==
    \E i \in Contexts :
        /\ Ready(i)
        /\ ctx[i].all_tables = CitySchema
        /\ ~Truthy(ctx[i].tables_with_strings)
        /\ Len(getitem(GrammarOf(i), "col_ref")) = 3

\* f'{table}_{column}_string' of a (table, column) pair
LiteralNonterminal(p) == p[1] \o "_" \o p[2] \o "_string"

\* The constrained pairs of instance i whose literal nonterminal was set.
ExtractedPairs(i) ==
    {p \in PairsOf(ctx[i].tables_with_strings) :
        LiteralNonterminal(p) \in keys(GrammarOf(i))}

\* C4: for every constrained (table, column) pair, whatever rows the data
\* source holds, the literal nonterminal has exactly one alternative per
\* distinct value, no alternative twice, in descending order.
C4_DistinctLiterals ==
    \A i \in Contexts :
        \A p \in (IF Ready(i) THEN ExtractedPairs(i) ELSE {}) :
            LET literals == getitem(GrammarOf(i), LiteralNonterminal(p))
            IN /\ Len(literals) = Cardinality(SelectDistinct(db, p))
               /\ NoDuplicates(literals)
               /\ Descending(literals)

ConstrainedBiexpr(p) ==
    "(\"" \o p[1] \o "\" ws \".\" ws \"" \o p[2] \o "\" ws binaryop ws "
    \o LiteralNonterminal(p) \o ")"

Fallbacks == <<"( col_ref ws binaryop ws value)", "(value ws binaryop ws value)">>

\* C5 as stated: with string constraints, biexpr is one constrained
\* production per pair in the order in which the pairs were processed,
\* followed by the two generic alternatives.
C5_LoopOrder ==
    \A i \in Contexts :
        (Ready(i) /\ Truthy(ctx[i].tables_with_strings)) =>
            LET pairs == Pairs(ctx[i].tables_with_strings.items)
            IN getitem(GrammarOf(i), "biexpr")
                   = [k \in 1..Len(pairs) |-> ConstrainedBiexpr(pairs[k])] \o Fallbacks

\* C5 as amended: with string constraints, biexpr is one constrained
\* production per pair in descending lexicographic order (whatever the order
\* in which the pairs were processed), followed by the two generic
\* alternatives as its last two elements.
C5_Descending ==
    \A i \in Contexts :
        (GrammarStrBuilt(i) /\ Truthy(ctx[i].tables_with_strings)) =>
            LET biexpr == getitem(GrammarOf(i), "biexpr")
                n == Cardinality(PairsOf(ctx[i].tables_with_strings))
            IN /\ Len(biexpr) = n + 2
               /\ SubSeq(biexpr, n + 1, n + 2) = Fallbacks
               /\ Range(SubSeq(biexpr, 1, n))
                      = {ConstrainedBiexpr(p) : p \in PairsOf(ctx[i].tables_with_strings)}
               /\ Descending(SubSeq(biexpr, 1, n))

C5_Witness ==
    \E i \in Contexts :
        /\ Ready(i)
        /\ Cardinality(PairsOf(ctx[i].tables_with_strings)) = 2
        /\ Len(getitem(GrammarOf(i), "biexpr")) = 4

\* The errors of grammar compilation.
CompileErrors == {"ParseError", "UndefinedLabel"}

\* C6: whenever a construction call that opened a connection ends, the
\* connection is closed.  Stated for the exits __init__ itself decides: the
\* normal return and the error raised by a distinct-value query.
C6_ConnectionClosed ==
    \A i \in Contexts :
        (Ended(i) /\ ctx[i].error \notin CompileErrors) =>
            ctx[i].connection # "open"

\* C7: two constructions given the same schema, the same constraints and
\* the same rows of the data source leave identical grammar dictionaries
\* (and end alike), in whatever order the data source returned the rows.
\* The dictionaries are compared as constructed: before any update of
\* number by a caller.
SameInputs(i, j) ==
    /\ ctx[i].all_tables = ctx[j].all_tables
    /\ ctx[i].tables_with_strings = ctx[j].tables_with_strings
    /\ ctx[i].database_file = ctx[j].database_file

AsConstructed(i) == getitem(GrammarOf(i), "number") = getitem(GRAMMAR_DICTIONARY, "number")

C7_Deterministic ==
    \A i, j \in Contexts :
        (Ended(i) /\ Ended(j) /\ SameInputs(i, j)
         /\ AsConstructed(i) /\ AsConstructed(j)) =>
            /\ GrammarOf(i) = GrammarOf(j)
            /\ ctx[i].stage = ctx[j].stage
            /\ ctx[i].error = ctx[j].error

C7_Witness ==
    /\ Ready(1) /\ Ready(2) /\ SameInputs(1, 2)
    /\ AsConstructed(1) /\ AsConstructed(2)
    /\ "city_state_string" \in keys(GrammarOf(1))
    /\ Len(getitem(GrammarOf(1), "city_state_string")) = 2
    /\ "flight_flight_number_string" \in keys(GrammarOf(1))

\* The step is a call on instance i: its construction, or an update through
\* its get_grammar_dictionary().
ActsOn(i) ==
    \/ ctx[i].stage = "none" /\ ctx'[i].stage # "none"
    \/ \E numbers \in NumberUpdates : UpdateNumber(i, numbers)

\* C8: no construction call, succeeding or failing, and no update through
\* one instance's grammar dictionary changes the module's GRAMMAR_DICTIONARY
\* or the grammar dictionary of another instance.
C8_Isolation ==
    [][/\ heap'[TemplateRef] = GRAMMAR_DICTIONARY
       /\ \A i, j \in Contexts :
              (i # j /\ ActsOn(i) /\ Ended(j)) =>
                  /\ ctx'[j] = ctx[j]
                  /\ heap'[ctx[j].grammar_dictionary] = GrammarOf(j)]_vars

C8_Witness ==
    /\ Ready(1) /\ Ended(2)
    /\ ~AsConstructed(1)
    /\ AsConstructed(2)
    /\ "city_state_string" \in keys(GrammarOf(1))
    /\ "city_state_string" \notin keys(GrammarOf(2))
    /\ getitem(GrammarOf(1), "table_name") # getitem(GrammarOf(2), "table_name")
    /\ heap[TemplateRef] = GRAMMAR_DICTIONARY

HasNumberSuffix(column) ==
    Len(column) >= 6 /\ SubSeq(column, Len(column) - 5, Len(column)) = "number"

AsTemplate(i, k) ==
    /\ (k \in keys(GrammarOf(i))) = (k \in keys(GRAMMAR_DICTIONARY))
    /\ k \in keys(GrammarOf(i)) =>
           getitem(GrammarOf(i), k) = getitem(GRAMMAR_DICTIONARY, k)

=============================================================================
